---- MODULE Spec2Model ----
(***************************************************************************)
(* Model of streamlit_app.py: a Streamlit script with two sections.        *)
(*   #1  page extractor: upload a PDF, pick pages in a multiselect, press  *)
(*       the button, download the picked pages as a new PDF.               *)
(*   #2  two-file merge: upload two files, press the button; each file is  *)
(*       converted by convert_to_pdf and the two results are concatenated. *)
(* The script is re-executed from top to bottom on every interaction, so   *)
(* every action of Spec is one whole run of the script.  SpecFn applies    *)
(* the functions of the module (and the extraction loop) to arguments      *)
(* drawn from bounded sets.                                                *)
(*                                                                         *)
(* Strings the code takes apart (file names, texts) are sequences of       *)
(* tokens; "." and "\n" are tokens of their own.  Byte buffers are records *)
(* that say what the bytes are (fmt) and who wrote them (producer).        *)
(***************************************************************************)
EXTENDS Integers, Sequences, FiniteSets, TLC

VARIABLES
    fs,         \* host filesystem: the set of font paths that exist
    uploaded,   \* section 1: the file in the uploader, or NoFile
    pages,      \* section 1: value of the multiselect, in order of selection
    sec1,       \* section 1: what the last run of the script put on screen
    file1,      \* section 2: uploader "f1"
    file2,      \* section 2: uploader "f2"
    sec2,       \* section 2: what the last run of the script put on screen
    call,       \* SpecFn: the function applied and its arguments
    ret         \* SpecFn: its result

vars == <<fs, uploaded, pages, sec1, file1, file2, sec2, call, ret>>

----------------------------------------------------------------------------
(* Bounds of the model.                                                    *)

\* largest page count of an uploaded PDF
MaxPages == 2
\* longest text, in tokens
MaxLen == 4
\* most paragraphs of a docx document
MaxParas == 2
\* longest page selection handed to the extraction loop in SpecFn
MaxSel == 3

----------------------------------------------------------------------------
(* Values.                                                                 *)

NL == "\n"
BR == "<br/>"
DOT == "."

Range(s) == {s[i] : i \in 1..Len(s)}

SeqsUpTo(S, n) == UNION {[1..k -> S] : k \in 0..n}

\* a registered face: its name and the font file behind it
Helvetica == [name |-> "Helvetica", file |-> "builtin"]
UserFont(path) == [name |-> "UserFont", file |-> path]
NoFont == [name |-> "", file |-> ""]

\* flowables of a text document
Paragraph(text, font) == [kind |-> "Paragraph", text |-> text, font |-> font, height |-> 0]
Spacer(w, h) == [kind |-> "Spacer", text |-> <<>>, font |-> NoFont, height |-> h]

\* a page of a PDF: a page of an uploaded PDF carries its document and number,
\* a page made from an image its colour mode, a page laid out from text its
\* flowables
Page(id, mode, flow) == [id |-> id, mode |-> mode, flow |-> flow]
SrcPage(doc, i) == Page(<<doc, i>>, "", <<>>)

\* byte buffers
Buf(fmt, producer, pgs, text, paras, mode) ==
    [fmt |-> fmt, producer |-> producer, pages |-> pgs, text |-> text,
     paras |-> paras, mode |-> mode]
NoBytes == Buf("none", "", <<>>, <<>>, <<>>, "")
PdfBytes(producer, pgs) == Buf("pdf", producer, pgs, <<>>, <<>>, "")
JunkBytes == Buf("junk", "", <<>>, <<>>, <<>>, "")
ImgBytes(mode) == Buf("img", "", <<>>, <<>>, <<>>, mode)
TextBytes(text) == Buf("utf8", "", <<>>, text, <<>>, "")
DocxBytes(paras) == Buf("docx", "", <<>>, <<>>, paras, "")

\* an uploaded PDF of n pages
SrcPdf(doc, n) == PdfBytes("upload", [i \in 1..n |-> SrcPage(doc, i)])

\* results of calls: a value, or an exception with its argument
\* (branch: the arm of convert_to_pdf that produced it; path: a returned path)
Ok(branch, v) ==
    [status |-> "ok", exc |-> "", arg |-> <<>>, branch |-> branch, value |-> v, path |-> ""]
Raise(branch, e, a) ==
    [status |-> "raise", exc |-> e, arg |-> a, branch |-> branch, value |-> NoBytes,
     path |-> ""]
OkPath(p) ==
    [status |-> "ok", exc |-> "", arg |-> <<>>, branch |-> "", value |-> NoBytes, path |-> p]
NotCalled ==
    [status |-> "none", exc |-> "", arg |-> <<>>, branch |-> "", value |-> NoBytes,
     path |-> ""]

\* font_path = None
None == "None"

KoreanFontPaths == <<
    "/usr/share/fonts/truetype/nanum/NanumGothic.ttf",
    "/usr/share/fonts/truetype/noto/NotoSansCJK-Regular.ttc",
    "/usr/share/fonts/truetype/noto/NotoSansKR-Regular.otf",
    "/usr/share/fonts/truetype/noto/NotoSansKR-Regular.ttf",
    "/usr/share/fonts/truetype/unfonts-core/UnBatang.ttf" >>

----------------------------------------------------------------------------
(* str.split, str.replace, str.join, str.lower on token sequences.         *)

\* position of the first occurrence of the separator sep in s from 1, 0 if none
FirstAt(s, sep) ==
    LET hits == {i \in 1..(Len(s) - Len(sep) + 1) :
                    SubSeq(s, i, i + Len(sep) - 1) = sep}
    IN  IF hits = {} THEN 0 ELSE CHOOSE i \in hits : \A j \in hits : i <= j

RECURSIVE PySplit(_, _)
PySplit(s, sep) ==
    LET i == FirstAt(s, sep)
    IN  IF i = 0 THEN <<s>>
        ELSE <<SubSeq(s, 1, i - 1)>> \o PySplit(SubSeq(s, i + Len(sep), Len(s)), sep)

\* s.replace(old, new) for a one-token old
PyReplace(s, old, new) == [i \in 1..Len(s) |-> IF s[i] = old THEN new ELSE s[i]]

RECURSIVE PyJoin(_, _)
PyJoin(sep, parts) ==
    IF parts = <<>> THEN <<>>
    ELSE IF Len(parts) = 1 THEN parts[1]
    ELSE parts[1] \o sep \o PyJoin(sep, Tail(parts))

LowerTok(t) ==
    CASE t = "PDF" -> "pdf"
      [] t = "Pdf" -> "pdf"
      [] t = "PNG" -> "png"
      [] t = "TXT" -> "txt"
      [] t = "XYZ" -> "xyz"
      [] OTHER -> t

PyLower(s) == [i \in 1..Len(s) |-> LowerTok(s[i])]

\* bytes.decode("utf-8", errors="replace"): an invalid byte becomes U+FFFD
BADBYTE == "\\xff"
REPLACEMENT == "\\ufffd"
DecodeUtf8(data) ==
    IF data.fmt = "utf8" THEN PyReplace(data.text, BADBYTE, REPLACEMENT)
    ELSE <<REPLACEMENT>>

----------------------------------------------------------------------------
(* create_pdf_from_text                                                    *)

\* FontName with the name set before the font is known to load
FontName_NoFallback(font_path, loads) ==
    IF font_path # None /\ font_path # "" THEN UserFont(font_path) ELSE Helvetica

\* lines 34-40: the face of the style.  loads: whether TTFont(font_path) and
\* registerFont succeed for this path on this host
FontName(font_path, loads) ==
    IF font_path # None /\ font_path # ""
    THEN IF loads THEN UserFont(font_path) ELSE Helvetica
    ELSE Helvetica

\* lines 51-54: one Paragraph and one Spacer per segment of the text
RECURSIVE FlowOf(_, _)
FlowOf(paras, font) ==
    IF paras = <<>> THEN <<>>
    ELSE <<Paragraph(PyReplace(paras[1], NL, BR), font), Spacer(1, 6)>>
         \o FlowOf(Tail(paras), font)

\* Flow splitting on every newline
Flow_SingleNewline(text, font) == FlowOf(PySplit(text, <<NL>>), font)

Flow(text, font) == FlowOf(PySplit(text, <<NL, NL>>), font)

\* doc.build(flow): a flow of at most 2 * (MaxLen + 1) short flowables fits
\* the frame of the first A4 page
Build(flow) == PdfBytes("reportlab", <<Page(<<"text", 1>>, "", flow)>>)

create_pdf_from_text(text, font_path, loads) ==
    Build(Flow(text, FontName(font_path, loads)))

----------------------------------------------------------------------------
(* auto_find_korean_font                                                   *)

auto_find_korean_font(exists) ==
    LET hits == {i \in 1..Len(KoreanFontPaths) : KoreanFontPaths[i] \in exists}
    IN  IF hits = {} THEN None
        ELSE KoreanFontPaths[CHOOSE i \in hits : \A j \in hits : i <= j]

----------------------------------------------------------------------------
(* convert_to_pdf                                                          *)

\* an uploaded file; named: whether the object has a name attribute
File(named, name, data) == [named |-> named, name |-> name, data |-> data]
NoFile == File(FALSE, <<>>, NoBytes)

ImageExts == {<<"png">>, <<"jpg">>, <<"jpeg">>, <<"bmp">>, <<"gif">>, <<"tiff">>}
TextExts == {<<"txt">>, <<"md">>}

\* ExtOf without .lower()
ExtOf_NoLower(f) ==
    LET name == IF f.named THEN f.name ELSE <<"file">>
        parts == PySplit(name, <<DOT>>)
    IN  parts[Len(parts)]

\* lines 85-86
ExtOf(f) ==
    LET name == IF f.named THEN f.name ELSE <<"file">>
        parts == PySplit(name, <<DOT>>)
    IN  PyLower(parts[Len(parts)])

\* lines 97-103: Image.open, convert, save as a one-page PDF
ImageToPdf(data) ==
    IF data.fmt # "img" THEN Raise("image", "UnidentifiedImageError", <<>>)
    ELSE LET mode == IF data.mode \in {"RGBA", "P"} THEN "RGB" ELSE data.mode
         IN  Ok("image", PdfBytes("pillow", <<Page(<<"image", 1>>, mode, <<>>)>>))

\* lines 112-117
DocxToPdf(data, font_path, loads) ==
    IF data.fmt # "docx" THEN Raise("docx", "BadZipFile", <<>>)
    ELSE Ok("docx", create_pdf_from_text(PyJoin(<<NL, NL>>, data.paras), font_path, loads))

\* convert_to_pdf reading a PDF and writing it again instead of returning it
convert_to_pdf_Reserialize(f, font_path, loads) ==
    LET ext == PyLower(PySplit(IF f.named THEN f.name ELSE <<"file">>, <<DOT>>)
                         [Len(PySplit(IF f.named THEN f.name ELSE <<"file">>, <<DOT>>))])
        data == f.data
    IN  IF ext = <<"pdf">>
        THEN IF data.fmt = "pdf" THEN Ok("passthrough", PdfBytes("pypdf", data.pages))
             ELSE Raise("passthrough", "PdfReadError", <<>>)
        ELSE IF ext \in ImageExts THEN ImageToPdf(data)
        ELSE IF ext \in TextExts
             THEN Ok("text", create_pdf_from_text(DecodeUtf8(data), font_path, loads))
        ELSE IF ext = <<"docx">> THEN DocxToPdf(data, font_path, loads)
        ELSE Raise("unsupported", "ValueError", ext)

convert_to_pdf(f, font_path, loads) ==
    LET ext == ExtOf(f)
        data == f.data
    IN  IF ext = <<"pdf">> THEN Ok("passthrough", data)
        ELSE IF ext \in ImageExts THEN ImageToPdf(data)
        ELSE IF ext \in TextExts
             THEN Ok("text", create_pdf_from_text(DecodeUtf8(data), font_path, loads))
        ELSE IF ext = <<"docx">> THEN DocxToPdf(data, font_path, loads)
        ELSE Raise("unsupported", "ValueError", ext)

----------------------------------------------------------------------------
(* pypdf                                                                   *)

\* PdfReader(io.BytesIO(b)) and its pages
PdfReader(b) ==
    IF b.fmt = "pdf" THEN Ok("", b) ELSE Raise("", "PdfReadError", <<>>)

\* PdfWriter with the pages added, written out
PdfWriterWrite(pgs) == PdfBytes("pypdf", pgs)

\* seq[i] of Python for a 0-based i: a negative i counts from the end;
\* the 1-based position, or 0 for IndexError
PyIndex(n, i) ==
    LET j == IF i < 0 THEN i + n ELSE i
    IN  IF j < 0 \/ j >= n THEN 0 ELSE j + 1

\* ExtractPages indexing with p instead of p - 1
ExtractPages_OffByOne(src, sel) ==
    IF \E k \in 1..Len(sel) : PyIndex(Len(src), sel[k]) = 0
    THEN Raise("", "IndexError", <<>>)
    ELSE Ok("", PdfBytes("pypdf", [k \in 1..Len(sel) |-> src[PyIndex(Len(src), sel[k])]]))

\* lines 142-147: the pages picked, in the order picked
ExtractPages(src, sel) ==
    IF \E k \in 1..Len(sel) : PyIndex(Len(src), sel[k] - 1) = 0
    THEN Raise("", "IndexError", <<>>)
    ELSE Ok("", PdfWriterWrite([k \in 1..Len(sel) |-> src[PyIndex(Len(src), sel[k] - 1)]]))

\* MergePages adding the second document first
MergePages_Swapped(pgs1, pgs2) == PdfBytes("pypdf", pgs2 \o pgs1)

\* lines 183-191
MergePages(pgs1, pgs2) == PdfWriterWrite(pgs1 \o pgs2)

----------------------------------------------------------------------------
(* The script: what one run puts on screen.                                *)

Screen(kind, data, fname) == [kind |-> kind, data |-> data, fname |-> fname]
\* nothing but the static widgets
Idle == Screen("idle", NoBytes, "")
\* st.warning
Warning == Screen("warning", NoBytes, "")
\* st.error in the except clause
Error == Screen("error", NoBytes, "")
\* st.download_button
Download(data, fname) == Screen("download", data, fname)

\* Section1 without the test of line 139
Section1_NoEmptyCheck(u, sel, click) ==
    IF u = NoFile THEN Screen("idle", NoBytes, "")
    ELSE IF u.data.fmt # "pdf" THEN Screen("error", NoBytes, "")
    ELSE IF ~click THEN Screen("idle", NoBytes, "")
    ELSE LET out == ExtractPages(u.data.pages, sel)
         IN  IF out.status = "raise" THEN Screen("error", NoBytes, "")
             ELSE Screen("download", out.value, "extracted_pages.pdf")

\* lines 125-158; click: the run was started by the extraction button
Section1(u, sel, click) ==
    IF u = NoFile THEN Idle
    ELSE LET reader == PdfReader(u.data)
         IN  IF reader.status = "raise" THEN Error
             ELSE IF ~click THEN Idle
             ELSE IF sel = <<>> THEN Warning
             ELSE LET out == ExtractPages(reader.value.pages, sel)
                  IN  IF out.status = "raise" THEN Error
                      ELSE Download(out.value, "extracted_pages.pdf")

\* MergeTwo going on with the first document when the second does not convert
MergeTwo_Partial(f1, f2) ==
    LET pdf1 == convert_to_pdf(f1, None, FALSE)
        pdf2 == convert_to_pdf(f2, None, FALSE)
    IN  IF pdf1.status = "raise" THEN pdf1
        ELSE IF pdf2.status = "raise" \/ pdf2.value.fmt # "pdf" THEN pdf1
        ELSE IF pdf1.value.fmt # "pdf" THEN Raise("", "PdfReadError", <<>>)
        ELSE Ok("", PdfBytes("pypdf", pdf1.value.pages \o pdf2.value.pages))

\* lines 177-191: the body of the try
MergeTwo(f1, f2) ==
    LET pdf1 == convert_to_pdf(f1, None, FALSE)
        pdf2 == convert_to_pdf(f2, None, FALSE)
    IN  IF pdf1.status = "raise" THEN pdf1
        ELSE IF pdf2.status = "raise" THEN pdf2
        ELSE LET reader1 == PdfReader(pdf1.value)
                 reader2 == PdfReader(pdf2.value)
             IN  IF reader1.status = "raise" THEN reader1
                 ELSE IF reader2.status = "raise" THEN reader2
                 ELSE Ok("", MergePages(reader1.value.pages, reader2.value.pages))

\* lines 172-201; click: the run was started by the merge button
Section2(f1, f2, click) ==
    IF ~click THEN Idle
    ELSE IF f1 = NoFile \/ f2 = NoFile THEN Warning
    ELSE LET out == MergeTwo(f1, f2)
         IN  IF out.status = "raise" THEN Error
             ELSE Download(out.value, "merged.pdf")

\* the options of the multiselect (line 134); empty when it is not drawn
Options(u) ==
    IF u = NoFile \/ PdfReader(u.data).status = "raise" THEN {}
    ELSE 1..Len(u.data.pages)

\* the multiselect keeps its value from run to run while it is drawn with the
\* same options, and starts from default=[] otherwise
KeptSelection(u, v, sel) ==
    IF Options(u) # {} /\ Options(u) = Options(v) THEN sel ELSE <<>>

----------------------------------------------------------------------------
(* What the user can upload.                                               *)

PdfName == <<"a", DOT, "pdf">>

\* section 1: the uploader takes .pdf names only; the bytes are anything
ExtractUploads ==
    {File(TRUE, PdfName, SrcPdf("A", n)) : n \in 1..MaxPages}
    \cup {File(TRUE, <<"bad", DOT, "pdf">>, JunkBytes)}

HelloWorld == <<"Hello", NL, NL, "World">>

\* section 2: the uploaders take the ten listed extensions
MergeUploads ==
    { File(TRUE, PdfName, SrcPdf("A", MaxPages)),
      File(TRUE, <<"B", DOT, "PDF">>, SrcPdf("B", 1)),
      File(TRUE, <<"bad", DOT, "pdf">>, JunkBytes),
      File(TRUE, <<"pic", DOT, "png">>, ImgBytes("RGBA")),
      File(TRUE, <<"bad", DOT, "jpg">>, JunkBytes),
      File(TRUE, <<"note", DOT, "txt">>, TextBytes(HelloWorld)),
      File(TRUE, <<"doc", DOT, "docx">>, DocxBytes(<<<<"Hello">>, <<"World">>>>)) }

\* the host has none or one of the listed fonts
AppFs == {{}} \cup {{KoreanFontPaths[i]} : i \in 1..Len(KoreanFontPaths)}

NoCall ==
    [fn |-> "", file |-> NoFile, text |-> <<>>, font_path |-> None, loads |-> FALSE,
     src |-> <<>>, sel |-> <<>>]

----------------------------------------------------------------------------
(* Spec: the application.  Every action is one run of the script.          *)

Init ==
    /\ fs \in AppFs
    /\ uploaded = NoFile
    /\ pages = <<>>
    /\ sec1 = Idle
    /\ file1 = NoFile
    /\ file2 = NoFile
    /\ sec2 = Idle
    /\ call = NoCall
    /\ ret = NotCalled

\* one run of the script with the widget values u, sel, f1, f2
Run(u, sel, click1, f1, f2, click2) ==
    /\ uploaded' = u
    /\ pages' = sel
    /\ sec1' = Section1(u, sel, click1)
    /\ file1' = f1
    /\ file2' = f2
    /\ sec2' = Section2(f1, f2, click2)
    /\ UNCHANGED <<fs, call, ret>>

UploadPdf ==
    \E f \in ExtractUploads :
        /\ f # uploaded
        /\ Run(f, KeptSelection(uploaded, f, pages), FALSE, file1, file2, FALSE)

RemovePdf ==
    /\ uploaded # NoFile
    /\ Run(NoFile, <<>>, FALSE, file1, file2, FALSE)

SelectPage ==
    \E p \in Options(uploaded) \ Range(pages) :
        Run(uploaded, Append(pages, p), FALSE, file1, file2, FALSE)

DeselectPage ==
    \E k \in 1..Len(pages) :
        Run(uploaded, SubSeq(pages, 1, k - 1) \o SubSeq(pages, k + 1, Len(pages)),
            FALSE, file1, file2, FALSE)

\* the button exists only when the upload parsed (line 138 is inside the try)
ClickExtract ==
    /\ Options(uploaded) # {}
    /\ Run(uploaded, pages, TRUE, file1, file2, FALSE)

UploadFile1 ==
    \E f \in MergeUploads \cup {NoFile} :
        /\ f # file1
        /\ Run(uploaded, pages, FALSE, f, file2, FALSE)

UploadFile2 ==
    \E f \in MergeUploads \cup {NoFile} :
        /\ f # file2
        /\ Run(uploaded, pages, FALSE, file1, f, FALSE)

ClickMerge == Run(uploaded, pages, FALSE, file1, file2, TRUE)

Next ==
    \/ UploadPdf
    \/ RemovePdf
    \/ SelectPage
    \/ DeselectPage
    \/ ClickExtract
    \/ UploadFile1
    \/ UploadFile2
    \/ ClickMerge

Spec == Init /\ [][Next]_vars

----------------------------------------------------------------------------
(* SpecFn: the functions applied to arguments drawn from bounded sets.     *)

FnNames ==
    { <<"a", DOT, "pdf">>, <<"B", DOT, "PDF">>, <<"c", DOT, "tar", DOT, "Pdf">>,
      <<"pdf", DOT, "bak">>, <<"pdf">>, <<"README">>, <<"note", DOT>>,
      <<DOT, "txt">>, <<"x", DOT, "xyz">>, <<"x", DOT, "XYZ">>,
      <<"pic", DOT, "PNG">>, <<"pic", DOT, "jpg">>, <<"pic", DOT, "jpeg">>,
      <<"pic", DOT, "bmp">>, <<"pic", DOT, "gif">>, <<"pic", DOT, "tiff">>,
      <<"note", DOT, "TXT">>, <<"README", DOT, "md">>, <<"doc", DOT, "docx">> }

Texts == SeqsUpTo({"Hello", "World", NL}, MaxLen)

DocxParaTexts == {<<>>, <<"Hello">>, <<"World">>, <<"Hello", NL, "World">>, <<"Hello", NL>>}

\* bytes of every kind, tried under every name
FnContents ==
    {SrcPdf("A", n) : n \in 1..MaxPages}
    \cup {JunkBytes}
    \cup {ImgBytes(m) : m \in {"RGB", "RGBA", "P", "L"}}
    \cup {TextBytes(HelloWorld), TextBytes(<<"Hello", BADBYTE>>)}
    \cup {DocxBytes(<<<<"Hello">>, <<"World">>>>)}

FnFiles ==
    {File(TRUE, n, d) : n \in FnNames, d \in FnContents}
    \cup {File(TRUE, n, TextBytes(t)) :
            n \in {<<"note", DOT, "TXT">>, <<"README", DOT, "md">>}, t \in Texts}
    \cup {File(TRUE, <<"doc", DOT, "docx">>, DocxBytes(ps)) :
            ps \in SeqsUpTo(DocxParaTexts, MaxParas)}
    \cup {File(FALSE, <<>>, d) : d \in {JunkBytes, SrcPdf("A", 1)}}

UploadedFontPath == "/tmp/tmpfont.ttf"

\* a font_path argument and whether that font loads
FnFonts ==
    {<<None, FALSE>>, <<"", FALSE>>}
    \cup ({KoreanFontPaths[1], UploadedFontPath} \X BOOLEAN)

FnCall(fn, f, text, font, src, sel) ==
    [fn |-> fn, file |-> f, text |-> text, font_path |-> font[1], loads |-> font[2],
     src |-> src, sel |-> sel]

FnCalls ==
    {FnCall("convert_to_pdf", f, <<>>, font, <<>>, <<>>) : f \in FnFiles, font \in FnFonts}
    \cup {FnCall("create_pdf_from_text", NoFile, t, font, <<>>, <<>>) :
            t \in Texts, font \in FnFonts}
    \cup {FnCall("extract", NoFile, <<>>, <<None, FALSE>>, SrcPdf("A", n).pages, sel) :
            n \in 1..MaxPages, sel \in SeqsUpTo((-1)..(MaxPages + 1), MaxSel)}

InitFn ==
    /\ uploaded = NoFile
    /\ pages = <<>>
    /\ sec1 = Idle
    /\ file1 = NoFile
    /\ file2 = NoFile
    /\ sec2 = Idle
    /\ ret = NotCalled
    /\ \/ call \in FnCalls /\ fs = {}
       \/ /\ call = FnCall("auto_find_korean_font", NoFile, <<>>, <<None, FALSE>>, <<>>, <<>>)
          /\ fs \in SUBSET Range(KoreanFontPaths)

Apply(fn, result) ==
    /\ call.fn = fn
    /\ ret = NotCalled
    /\ ret' = result
    /\ UNCHANGED <<fs, uploaded, pages, sec1, file1, file2, sec2, call>>

CallConvertToPdf ==
    Apply("convert_to_pdf", convert_to_pdf(call.file, call.font_path, call.loads))

CallCreatePdfFromText ==
    Apply("create_pdf_from_text",
          Ok("", create_pdf_from_text(call.text, call.font_path, call.loads)))

CallAutoFindKoreanFont ==
    Apply("auto_find_korean_font", OkPath(auto_find_korean_font(fs)))

\* lines 139-147 applied to a page selection
CallExtract ==
    Apply("extract",
          IF call.sel = <<>> THEN Raise("", "EmptySelection", <<>>)
          ELSE ExtractPages(call.src, call.sel))

NextFn ==
    \/ CallConvertToPdf
    \/ CallCreatePdfFromText
    \/ CallAutoFindKoreanFont
    \/ CallExtract

SpecFn == InitFn /\ [][NextFn]_vars

----------------------------------------------------------------------------
(* Properties.                                                             *)

\* the extension as the specification words it: the lower-cased suffix after
\* the last dot of the file name (the whole name when it has no dot)
SuffixAfterLastDot(f) ==
    LET name == IF f.named THEN f.name ELSE <<"file">>
        dots == {i \in 1..Len(name) : name[i] = DOT}
        last == IF dots = {} THEN 0 ELSE CHOOSE i \in dots : \A j \in dots : j <= i
    IN  [k \in 1..(Len(name) - last) |-> LowerTok(name[last + k])]

SupportedExts ==
    {<<"pdf">>, <<"png">>, <<"jpg">>, <<"jpeg">>, <<"bmp">>, <<"gif">>, <<"tiff">>,
     <<"txt">>, <<"md">>, <<"docx">>}

ConverterFor(ext) ==
    CASE ext = <<"pdf">> -> "passthrough"
      [] ext \in {<<"txt">>, <<"md">>} -> "text"
      [] ext = <<"docx">> -> "docx"
      [] OTHER -> "image"

\* the bytes of f are what its extension promises, so that it converts and
\* the result parses as a PDF
Converts(f) ==
    LET ext == SuffixAfterLastDot(f)
    IN  /\ ext \in SupportedExts
        /\ ConverterFor(ext) = "passthrough" => f.data.fmt = "pdf"
        /\ ConverterFor(ext) = "image" => f.data.fmt = "img"
        /\ ConverterFor(ext) = "docx" => f.data.fmt = "docx"

InRange(sel, n) == \A k \in 1..Len(sel) : sel[k] \in 1..n

\* C1: after the extraction button is pressed with a non-empty selection of
\* indices in 1..N, a download is offered whose page count is the length of
\* the selection and whose k-th page is source page selection[k].
C1_ExtractionFollowsSelection ==
    (/\ Options(uploaded) # {}
     /\ sec1.kind # "idle"
     /\ pages # <<>>
     /\ InRange(pages, Len(uploaded.data.pages)))
    => /\ sec1.kind = "download"
       /\ sec1.data.fmt = "pdf"
       /\ Len(sec1.data.pages) = Len(pages)
       /\ \A k \in 1..Len(pages) : sec1.data.pages[k] = uploaded.data.pages[pages[k]]

C1_Witness ==
    /\ sec1.kind = "download"
    /\ pages = <<2, 1>>
    /\ sec1.data.pages = <<SrcPage("A", 2), SrcPage("A", 1)>>

\* the pages of the PDF that file f converts to
ConvertedPages(f) == PdfReader(convert_to_pdf(f, None, FALSE).value).value.pages

\* C2: when both files convert, the merge offers a PDF of A+B pages: the A
\* pages of document 1 in order, then the B pages of document 2 in order.
C2_MergeIsConcatenation ==
    (/\ sec2.kind # "idle"
     /\ file1 # NoFile /\ file2 # NoFile
     /\ Converts(file1) /\ Converts(file2))
    => LET d1 == ConvertedPages(file1)
           d2 == ConvertedPages(file2)
           out == sec2.data.pages
       IN  /\ sec2.kind = "download"
           /\ Len(out) = Len(d1) + Len(d2)
           /\ \A i \in 1..Len(d1) : out[i] = d1[i]
           /\ \A j \in 1..Len(d2) : out[Len(d1) + j] = d2[j]

C2_Witness ==
    /\ sec2.kind = "download"
    /\ file1.data = SrcPdf("A", MaxPages)
    /\ file2.data = SrcPdf("B", 1)
    /\ Len(sec2.data.pages) = MaxPages + 1
    /\ sec2.data.pages[MaxPages + 1] = SrcPage("B", 1)

\* C3: pressing the extraction button with an empty selection ends in the
\* warning alone: no document is built and no download is offered.
C3_EmptySelectionWarns ==
    [][(ClickExtract /\ pages = <<>>)
        => (sec1'.kind = "warning" /\ sec1'.data = NoBytes)]_vars

C3_Witness ==
    /\ sec1.kind = "warning"
    /\ pages = <<>>
    /\ Options(uploaded) # {}

C5_NoPartialMerge ==
    sec2.kind # "idle"
    => IF file1 # NoFile /\ file2 # NoFile /\ Converts(file1) /\ Converts(file2)
       THEN sec2.kind = "download" /\ sec2.data.fmt = "pdf"
       ELSE /\ sec2.kind \in {"warning", "error"}
            /\ sec2.data = NoBytes
            /\ (file1 = NoFile \/ file2 = NoFile) => sec2.kind = "warning"

C5_Witness ==
    /\ sec2.kind = "error"
    /\ file1 # NoFile /\ Converts(file1)
    /\ file2 # NoFile /\ ~Converts(file2)

\* C6: convert_to_pdf on a name whose extension is not one of the ten raises
\* the unsupported-format error carrying the extension and returns no bytes;
\* on each of the ten it takes the one converter of that extension.
C6_UnsupportedFormatRaises ==
    (call.fn = "convert_to_pdf" /\ ret # NotCalled)
    => LET ext == SuffixAfterLastDot(call.file)
       IN  IF ext \notin SupportedExts
           THEN /\ ret.status = "raise"
                /\ ret.exc = "ValueError"
                /\ ret.arg = ext
                /\ ret.value = NoBytes
                /\ ret.branch = "unsupported"
           ELSE ret.branch = ConverterFor(ext)

C6_Witness ==
    /\ call.fn = "convert_to_pdf"
    /\ call.file.name = <<"x", DOT, "XYZ">>
    /\ ret.status = "raise"
    /\ ret.arg = <<"xyz">>

\* C7: convert_to_pdf on a name with extension pdf, in any letter case,
\* returns the input bytes themselves, whatever they are and whatever font
\* is passed.
C7_PdfPassthrough ==
    (/\ call.fn = "convert_to_pdf"
     /\ ret # NotCalled
     /\ SuffixAfterLastDot(call.file) = <<"pdf">>)
    => (ret.status = "ok" /\ ret.value = call.file.data)

C7_Witness ==
    /\ call.fn = "convert_to_pdf"
    /\ call.file.name = <<"B", DOT, "PDF">>
    /\ call.file.data = JunkBytes
    /\ call.font_path = UploadedFontPath
    /\ ret.status = "ok"
    /\ ret.value = JunkBytes

\* the texts of the paragraphs of a flow, line breaks written as newlines
ParagraphTexts(flow) ==
    [k \in 1..(Len(flow) \div 2) |-> PyReplace(flow[2 * k - 1].text, BR, NL)]

RECURSIVE BlankLineJoin(_)
BlankLineJoin(ps) ==
    IF ps = <<>> THEN <<>>
    ELSE IF Len(ps) = 1 THEN ps[1]
    ELSE BlankLineJoin(SubSeq(ps, 1, Len(ps) - 1)) \o <<NL, NL>> \o ps[Len(ps)]

\* flow lays text out: paragraph, gap, paragraph, gap, ...; the paragraphs
\* are the segments of text between double newlines, in order, and what was
\* a newline inside a segment is a line break
LaysOut(flow, text) ==
    /\ Len(flow) % 2 = 0
    /\ Len(flow) >= 2
    /\ \A i \in 1..Len(flow) :
          IF i % 2 = 1
          THEN flow[i].kind = "Paragraph" /\ NL \notin Range(flow[i].text)
          ELSE flow[i] = Spacer(1, 6)
    /\ BlankLineJoin(ParagraphTexts(flow)) = text
    /\ \A k \in 1..(Len(flow) \div 2) :
          LET seg == ParagraphTexts(flow)[k]
          IN  \A i \in 1..(Len(seg) - 1) : ~(seg[i] = NL /\ seg[i + 1] = NL)

\* C8: create_pdf_from_text lays out one paragraph per double-newline
\* segment of the text, in order, each followed by one gap, single newlines
\* as line breaks; "Hello\n\nWorld" gives "Hello" then "World"; for a docx
\* the text is the paragraph texts joined by blank lines.
C8_ParagraphPerSegment ==
    /\ (call.fn = "create_pdf_from_text" /\ ret # NotCalled)
       => /\ ret.status = "ok"
          /\ Len(ret.value.pages) >= 1
          /\ LaysOut(ret.value.pages[1].flow, call.text)
          /\ call.text = HelloWorld
             => ParagraphTexts(ret.value.pages[1].flow) = <<<<"Hello">>, <<"World">>>>
    /\ (/\ call.fn = "convert_to_pdf" /\ ret # NotCalled
        /\ SuffixAfterLastDot(call.file) = <<"docx">>
        /\ call.file.data.fmt = "docx")
       => /\ ret.status = "ok"
          /\ LaysOut(ret.value.pages[1].flow, BlankLineJoin(call.file.data.paras))

C8_Witness ==
    /\ call.fn = "create_pdf_from_text"
    /\ call.text = <<"Hello", NL, NL, NL>>
    /\ call.font_path = None
    /\ ret.status = "ok"
    /\ ret.value.pages[1].flow =
          <<Paragraph(<<"Hello">>, Helvetica), Spacer(1, 6),
            Paragraph(<<BR>>, Helvetica), Spacer(1, 6)>>

\* every paragraph of the document is set in face
SetIn(doc, face) ==
    \A i \in 1..Len(doc.pages) :
        \A j \in 1..Len(doc.pages[i].flow) :
            doc.pages[i].flow[j].kind = "Paragraph" => doc.pages[i].flow[j].font = face

\* C9: a font that does not load is never fatal: the text is set in the
\* supplied font when it loads and in the built-in face otherwise, and the
\* call returns a document in either case.
C9_FontFailureDegrades ==
    (/\ ret # NotCalled
     /\ \/ call.fn = "create_pdf_from_text"
        \/ /\ call.fn = "convert_to_pdf"
           /\ ret.branch = "text" \/ (ret.branch = "docx" /\ call.file.data.fmt = "docx"))
    => /\ ret.status = "ok"
       /\ ret.value.fmt = "pdf"
       /\ IF call.font_path \notin {None, ""} /\ call.loads
          THEN SetIn(ret.value, [name |-> "UserFont", file |-> call.font_path])
          ELSE SetIn(ret.value, [name |-> "Helvetica", file |-> "builtin"])

C9_Witness ==
    /\ call.fn = "convert_to_pdf"
    /\ call.font_path = UploadedFontPath
    /\ ~call.loads
    /\ ret.status = "ok"
    /\ ret.branch = "text"
    /\ ret.value.pages[1].flow[1].font = Helvetica

\* C10: text converted by the merge, which supplies no font, is set in the
\* first listed Korean font that exists on the host, and in the built-in
\* face only when none exists.
C10_MergeUsesKoreanFont ==
    sec2.kind = "download"
    => LET found == auto_find_korean_font(fs)
       IN  SetIn(sec2.data, IF found = None THEN Helvetica ELSE UserFont(found))

====
